---- MODULE Spec2Model ----
(***************************************************************************)
(* Model of news_parsing_utils.py: the line-respecting chunker             *)
(* split_string_by_lines, the sender send_long_message_to_telegram that    *)
(* hands its chunks to send_to_telegram, the retry loop of                 *)
(* process_text_with_gemini and the extractor get_content_from_link; and   *)
(* of the try statements of the entry points of the three scripts.         *)
(*                                                                         *)
(* A text is a sequence of one-character strings.  A chunk and a line are  *)
(* texts too.                                                              *)
(***************************************************************************)
EXTENDS Integers, Sequences, FiniteSets, TLC

VARIABLES
    pc,             \* position of the running function
    long_string,    \* split_string_by_lines: argument
    max_length,     \* split_string_by_lines: argument
    lines,          \* split_string_by_lines: local of line 112
    line_idx,       \* split_string_by_lines: position of the for loop of line 117
    chunks,         \* split_string_by_lines: local of line 114
    current_chunk,  \* split_string_by_lines: local of line 115
    message,        \* send_long_message_to_telegram: argument
    splitted_msg,   \* send_long_message_to_telegram: local of line 173
    m_idx,          \* send_long_message_to_telegram: position of the for loop of line 174
    sink_calls,     \* the texts send_to_telegram was called with, in call order
    sink_returns,   \* the number of calls of send_to_telegram that returned
    max_retries,    \* process_text_with_gemini: argument
    delay_seconds,  \* process_text_with_gemini: argument
    current_try,    \* process_text_with_gemini: local of line 56
    model_calls,    \* the outcomes of the calls of model.generate_content, in call order
    slept,          \* the arguments of the calls of time.sleep, in call order
    result,         \* process_text_with_gemini: what the call returned or raised
    url,            \* get_content_from_link: argument
    http_status,    \* _get_content_from_link_trafilatura: response.status_code, 0 without a response
    primary,        \* get_content_from_link: local content of line 220
    fallback_calls, \* the number of calls of _get_content_from_link_tabily
    fallback,       \* what _get_content_from_link_tabily returned
    fetched,        \* get_content_from_link: what the call returned or raised
    program,        \* the entry points a script's main runs, in order
    ep_idx,         \* the entry point main is at
    stage,          \* the stage of the entry point's try body that runs
    failures,       \* the exceptions raised in try bodies, in order
    notices,        \* the failure notices send_to_telegram was called with, in call order
    propagated      \* the exception that left main

splitVars == <<long_string, max_length, lines, line_idx, chunks, current_chunk>>

sendVars == <<message, splitted_msg, m_idx, sink_calls, sink_returns>>

geminiVars == <<max_retries, delay_seconds, current_try, model_calls, slept, result>>

fetchVars == <<url, http_status, primary, fallback_calls, fallback, fetched>>

botVars == <<program, ep_idx, stage, failures, notices, propagated>>

callerVars == <<fetchVars, botVars>>

vars == <<pc, splitVars, sendVars, geminiVars, callerVars>>

(***************************************************************************)
(* Bounds of the model.                                                    *)
(***************************************************************************)
MaxLen == 5             \* longest text given to the chunker
MaxLimit == 4           \* largest max_length given to the chunker
NonPositiveLimits == 2  \* how many limits <= 0 are given to the chunker

MaxMsgLines == 3        \* most lines of a message given to the sender
MaxRetries == 4         \* largest max_retries given to process_text_with_gemini
NegativeRetries == 1    \* how many max_retries < 0 are given
MaxBlogs == 3           \* how many feeds of rss_feed_dict main goes through

Chars == {"a", "b", "\n", "\r"}

Texts == UNION {[1..n -> Chars] : n \in 0..MaxLen}

Limits == (1 - NonPositiveLimits)..MaxLimit

\* line 93: max_length: int = 4096
DefaultMaxLength == 4096

\* line 15: max_retries=3, delay_seconds=60
DefaultMaxRetries == 3

DefaultDelaySeconds == 60

\* what process_text_with_gemini has returned or raised: nothing yet
Running == [kind |-> "running", value |-> "none"]

\* line 221: len(content) < 100
MinContentLength == 100

\* a value that is None or a str
NoneValue == [none |-> TRUE, text |-> <<>>]

Text(t) == [none |-> FALSE, text |-> t]

\* bool(v) of a value that is None or a str
Truthy(v) == ~v.none /\ Len(v.text) > 0

\* what get_content_from_link has returned or raised: nothing yet
Fetching == [kind |-> "running", value |-> NoneValue]

\* the exception that left main: none
NoException == [ep |-> "none", exc |-> "none", from |-> "none"]

(***************************************************************************)
(* str.splitlines(keepends=True).  Python breaks a line after "\n", "\r",  *)
(* "\r\n" (one break), and after the other line boundaries, of which       *)
(* "\f" stands here; the end of a non-empty text ends its last line.       *)
(***************************************************************************)
LineBreaks == {"\n", "\r", "\f"}

IsLineEnd(s, i) ==
    \/ i = Len(s)
    \/ /\ s[i] \in LineBreaks
       /\ ~(s[i] = "\r" /\ s[i + 1] = "\n")

LineEnds(s) == {i \in 1..Len(s) : IsLineEnd(s, i)}

\* a split after every break character, "\r\n" taken as two breaks
splitlinesEachBreak(s) ==
    LET ends == {i \in 1..Len(s) : i = Len(s) \/ s[i] \in LineBreaks}
        EndAt(k) == CHOOSE e \in ends : Cardinality({x \in ends : x <= e}) = k
        StartAt(k) == IF k = 1 THEN 1 ELSE EndAt(k - 1) + 1
    IN  [k \in 1..Cardinality(ends) |-> SubSeq(s, StartAt(k), EndAt(k))]

splitlines(s) ==
    LET ends == LineEnds(s)
        EndAt(k) == CHOOSE e \in ends : Cardinality({x \in ends : x <= e}) = k
        StartAt(k) == IF k = 1 THEN 1 ELSE EndAt(k - 1) + 1
    IN  [k \in 1..Cardinality(ends) |-> SubSeq(s, StartAt(k), EndAt(k))]

(***************************************************************************)
(* "".join(seq)                                                            *)
(***************************************************************************)
RECURSIVE Concat(_)
Concat(seq) ==
    IF Len(seq) = 0 THEN <<>>
    ELSE Concat(SubSeq(seq, 1, Len(seq) - 1)) \o seq[Len(seq)]

(***************************************************************************)
(* The body of the for loop of split_string_by_lines.                      *)
(***************************************************************************)
\* line 120: if len(line) >= max_length
IsOversized(line, limit) == Len(line) >= limit

\* the comparison of line 133 with > for >=
OverflowsStrict(cur, line, limit) == Len(cur) + Len(line) > limit

\* the comparison of line 133 keeping one character of room
OverflowsEarly(cur, line, limit) == Len(cur) + Len(line) + 1 >= limit

\* line 133: if len(current_chunk) + len(line) >= max_length
Overflows(cur, line, limit) == Len(cur) + Len(line) >= limit

\* the append without its guard
FlushAlways(cs, cur) == Append(cs, cur)

\* lines 122-123, 135-136, 145-146: if current_chunk: chunks.append(current_chunk)
Flush(cs, cur) == IF Len(cur) > 0 THEN Append(cs, cur) ELSE cs

\* the oversized line appended to the accumulator instead of after it
OversizedBranchMerged(st, line) ==
    [chunks |-> Append(st.chunks, st.current_chunk \o line),
     current_chunk |-> <<>>]

\* lines 122-129: the oversized line is a chunk of its own
OversizedBranch(st, line) ==
    [chunks |-> Append(Flush(st.chunks, st.current_chunk), line),
     current_chunk |-> <<>>]

\* the new chunk started without keeping the old one
NewChunkBranchDropsChunk(st, line) ==
    [chunks |-> st.chunks,
     current_chunk |-> line]

\* lines 135-139: the line starts a new chunk
NewChunkBranch(st, line) ==
    [chunks |-> Flush(st.chunks, st.current_chunk),
     current_chunk |-> line]

\* line 142: the line joins the current chunk
AccumulateBranch(st, line) ==
    [chunks |-> st.chunks,
     current_chunk |-> st.current_chunk \o line]

LoopBody(st, line, limit) ==
    IF IsOversized(line, limit) THEN OversizedBranch(st, line)
    ELSE IF Overflows(st.current_chunk, line, limit) THEN NewChunkBranch(st, line)
    ELSE AccumulateBranch(st, line)

RECURSIVE LoopFrom(_, _, _, _)
LoopFrom(st, ls, i, limit) ==
    IF i > Len(ls) THEN st
    ELSE LoopFrom(LoopBody(st, ls[i], limit), ls, i + 1, limit)

\* split_string_by_lines as a function of its arguments
split_string_by_lines(text, limit) ==
    LET st == LoopFrom([chunks |-> <<>>, current_chunk |-> <<>>],
                       splitlines(text), 1, limit)
    IN  Flush(st.chunks, st.current_chunk)

(***************************************************************************)
(* split_string_by_lines, one step per statement group.                    *)
(***************************************************************************)
\* the locals of a function that is not running
SplitIdle ==
    /\ long_string = <<>>
    /\ max_length = DefaultMaxLength
    /\ lines = <<>>
    /\ line_idx = 1
    /\ chunks = <<>>
    /\ current_chunk = <<>>

SendIdle ==
    /\ message = <<>>
    /\ splitted_msg = <<>>
    /\ m_idx = 1
    /\ sink_calls = <<>>
    /\ sink_returns = 0

GeminiIdle ==
    /\ max_retries = DefaultMaxRetries
    /\ delay_seconds = DefaultDelaySeconds
    /\ current_try = 0
    /\ model_calls = <<>>
    /\ slept = <<>>
    /\ result = Running

FetchIdle ==
    /\ url = "none"
    /\ http_status = 0
    /\ primary = NoneValue
    /\ fallback_calls = 0
    /\ fallback = NoneValue
    /\ fetched = Fetching

BotIdle ==
    /\ program = <<>>
    /\ ep_idx = 1
    /\ stage = 1
    /\ failures = <<>>
    /\ notices = <<>>
    /\ propagated = NoException

CallerIdle == FetchIdle /\ BotIdle

InitSplit ==
    /\ pc = "split"
    /\ long_string \in Texts
    /\ max_length \in Limits
    /\ lines = <<>>
    /\ line_idx = 1
    /\ chunks = <<>>
    /\ current_chunk = <<>>
    /\ SendIdle
    /\ GeminiIdle
    /\ CallerIdle

\* lines 112-115
SplitLines ==
    /\ pc = "split"
    /\ lines' = splitlines(long_string)
    /\ chunks' = <<>>
    /\ current_chunk' = <<>>
    /\ line_idx' = 1
    /\ pc' = "loop"
    /\ UNCHANGED <<long_string, max_length, sendVars, geminiVars, callerVars>>

InLoop == pc = "loop" /\ line_idx <= Len(lines)

St == [chunks |-> chunks, current_chunk |-> current_chunk]

TakeBranch(st) ==
    /\ chunks' = st.chunks
    /\ current_chunk' = st.current_chunk
    /\ line_idx' = line_idx + 1
    /\ UNCHANGED <<pc, long_string, max_length, lines, sendVars, geminiVars, callerVars>>

\* lines 120-130
OversizedLine ==
    /\ InLoop
    /\ IsOversized(lines[line_idx], max_length)
    /\ TakeBranch(OversizedBranch(St, lines[line_idx]))

\* lines 133-139
StartNewChunk ==
    /\ InLoop
    /\ ~IsOversized(lines[line_idx], max_length)
    /\ Overflows(current_chunk, lines[line_idx], max_length)
    /\ TakeBranch(NewChunkBranch(St, lines[line_idx]))

\* lines 140-142
Accumulate ==
    /\ InLoop
    /\ ~IsOversized(lines[line_idx], max_length)
    /\ ~Overflows(current_chunk, lines[line_idx], max_length)
    /\ TakeBranch(AccumulateBranch(St, lines[line_idx]))

\* lines 145-148
FinalFlush ==
    /\ pc = "loop"
    /\ line_idx > Len(lines)
    /\ chunks' = Flush(chunks, current_chunk)
    /\ pc' = "done"
    /\ UNCHANGED <<long_string, max_length, lines, line_idx, current_chunk>>
    /\ UNCHANGED <<sendVars, geminiVars, callerVars>>

Next ==
    \/ SplitLines
    \/ OversizedLine
    \/ StartNewChunk
    \/ Accumulate
    \/ FinalFlush

Spec == InitSplit /\ [][Next]_vars

Returned == pc = "done"

\* the stepwise run computes the function
StepwiseIsFunction ==
    Returned => chunks = split_string_by_lines(long_string, max_length)

(***************************************************************************)
(* send_long_message_to_telegram (lines 172-175).  send_to_telegram is the *)
(* sink: a call appends its text to sink_calls, then returns or raises     *)
(* (requests.post, line 165); nothing in lines 172-175 catches what it     *)
(* raises.                                                                 *)
(***************************************************************************)
\* a line of n characters and a line feed
MsgLine(n) == [i \in 1..(n + 1) |-> IF i <= n THEN "a" ELSE "\n"]

\* lines of 1, of half the default limit, and of the default limit
MsgLines ==
    {MsgLine(n) : n \in {0, (DefaultMaxLength \div 2) - 1, DefaultMaxLength - 1}}

Messages ==
    {Concat(ls) : ls \in UNION {[1..n -> MsgLines] : n \in 0..MaxMsgLines}}

InitSend ==
    /\ pc = "send_split"
    /\ message \in Messages
    /\ splitted_msg = <<>>
    /\ m_idx = 1
    /\ sink_calls = <<>>
    /\ sink_returns = 0
    /\ SplitIdle
    /\ GeminiIdle
    /\ CallerIdle

\* the for loop of line 174 taking the items the other way round
ForItemReversed(seq, k) == seq[Len(seq) + 1 - k]

\* line 174: the k-th item of the for loop
ForItem(seq, k) == seq[k]

\* line 173
SendSplit ==
    /\ pc = "send_split"
    /\ splitted_msg' = split_string_by_lines(message, DefaultMaxLength)
    /\ m_idx' = 1
    /\ pc' = "send_loop"
    /\ UNCHANGED <<message, sink_calls, sink_returns, splitVars, geminiVars, callerVars>>

\* lines 174-175: the call of send_to_telegram(m, ...)
SinkCall ==
    /\ pc = "send_loop"
    /\ m_idx <= Len(splitted_msg)
    /\ sink_calls' = Append(sink_calls, ForItem(splitted_msg, m_idx))
    /\ pc' = "in_sink"
    /\ UNCHANGED <<message, splitted_msg, m_idx, sink_returns, splitVars, geminiVars, callerVars>>

\* line 166: send_to_telegram returns, the loop goes on
SinkReturn ==
    /\ pc = "in_sink"
    /\ sink_returns' = sink_returns + 1
    /\ m_idx' = m_idx + 1
    /\ pc' = "send_loop"
    /\ UNCHANGED <<message, splitted_msg, sink_calls, splitVars, geminiVars, callerVars>>

\* line 165: send_to_telegram raises, send_long_message_to_telegram with it
SinkRaise ==
    /\ pc = "in_sink"
    /\ pc' = "send_raised"
    /\ UNCHANGED <<sendVars, splitVars, geminiVars, callerVars>>

\* line 174: the loop is exhausted, the function returns
SendReturn ==
    /\ pc = "send_loop"
    /\ m_idx > Len(splitted_msg)
    /\ pc' = "send_returned"
    /\ UNCHANGED <<sendVars, splitVars, geminiVars, callerVars>>

NextSend ==
    \/ SendSplit
    \/ SinkCall
    \/ SinkReturn
    \/ SinkRaise
    \/ SendReturn

SpecSend == InitSend /\ [][NextSend]_vars

(***************************************************************************)
(* process_text_with_gemini (lines 56-91).  One attempt is one pass of     *)
(* the while loop: the call of model.generate_content raises               *)
(* ResourceExhausted, raises something else, or returns a response whose   *)
(* text json.loads parses or rejects.                                      *)
(***************************************************************************)
RetryLimits == (0 - NegativeRetries)..MaxRetries

Delays == {1, DefaultDelaySeconds}

GoodResponse == "{\"english\": \"E\", \"korean\": \"K\"}"

TruncatedResponse == "{\"english\": \"E\""

ResponseTexts == {GoodResponse, TruncatedResponse}

\* line 65: json.loads(response.text)
json_loads(t) ==
    IF t = GoodResponse
    THEN [raises |-> FALSE, value |-> "{'english': 'E', 'korean': 'K'}"]
    ELSE [raises |-> TRUE, value |-> "JSONDecodeError"]

Returns(v) == [kind |-> "return", value |-> v]

Raises(e) == [kind |-> "raise", value |-> e]

InitGemini ==
    /\ pc = "gemini_loop"
    /\ max_retries \in RetryLimits
    /\ delay_seconds \in Delays
    /\ current_try = 0
    /\ model_calls = <<>>
    /\ slept = <<>>
    /\ result = Running
    /\ SplitIdle
    /\ SendIdle
    /\ CallerIdle

\* line 57: while current_try <= max_retries
InWhile == pc = "gemini_loop" /\ current_try <= max_retries

\* the comparison of line 71 giving up one attempt late
RetriesExhaustedLate(try, limit) == try > limit + 1

\* line 71: if current_try > max_retries (after the increment of line 70)
RetriesExhausted(try, limit) == try > limit

GeminiEnds(outcome, r) ==
    /\ model_calls' = Append(model_calls, outcome)
    /\ result' = r
    /\ pc' = "gemini_done"
    /\ UNCHANGED <<max_retries, delay_seconds, current_try, slept>>
    /\ UNCHANGED <<splitVars, sendVars, callerVars>>

\* lines 61-66: the response parses, its value is returned
AttemptReturns ==
    /\ InWhile
    /\ \E t \in ResponseTexts :
           /\ ~json_loads(t).raises
           /\ GeminiEnds(t, Returns(json_loads(t).value))

\* the handler of lines 79-84 sleeping and trying again as the one of lines 68-77
AttemptBadJsonRetried ==
    /\ InWhile
    /\ \E t \in ResponseTexts :
           /\ json_loads(t).raises
           /\ model_calls' = Append(model_calls, t)
    /\ current_try' = current_try + 1
    /\ slept' = Append(slept, delay_seconds)
    /\ UNCHANGED <<pc, max_retries, delay_seconds, result, splitVars, sendVars, callerVars>>

\* lines 79-84: the response does not parse, JSONDecodeError is raised again
AttemptBadJson ==
    /\ InWhile
    /\ \E t \in ResponseTexts :
           /\ json_loads(t).raises
           /\ GeminiEnds(t, Raises(json_loads(t).value))

\* lines 86-89: any other exception is raised again
AttemptOtherError ==
    /\ InWhile
    /\ GeminiEnds("Exception", Raises("Exception"))

\* lines 68-77: rate limited with tries left: sleep, then the next pass
RateLimitedRetry ==
    /\ InWhile
    /\ ~RetriesExhausted(current_try + 1, max_retries)
    /\ current_try' = current_try + 1
    /\ model_calls' = Append(model_calls, "ResourceExhausted")
    /\ slept' = Append(slept, delay_seconds)
    /\ UNCHANGED <<pc, max_retries, delay_seconds, result, splitVars, sendVars, callerVars>>

\* lines 68-74: rate limited with no try left: ResourceExhausted is raised again
RateLimitedGiveUp ==
    /\ InWhile
    /\ RetriesExhausted(current_try + 1, max_retries)
    /\ current_try' = current_try + 1
    /\ model_calls' = Append(model_calls, "ResourceExhausted")
    /\ result' = Raises("ResourceExhausted")
    /\ pc' = "gemini_done"
    /\ UNCHANGED <<max_retries, delay_seconds, slept, splitVars, sendVars, callerVars>>

\* lines 57, 91: the while condition is false
WhileExit ==
    /\ pc = "gemini_loop"
    /\ ~(current_try <= max_retries)
    /\ result' = Raises("RuntimeError")
    /\ pc' = "gemini_done"
    /\ UNCHANGED <<max_retries, delay_seconds, current_try, model_calls, slept>>
    /\ UNCHANGED <<splitVars, sendVars, callerVars>>

NextGemini ==
    \/ AttemptReturns
    \/ AttemptBadJson
    \/ AttemptOtherError
    \/ RateLimitedRetry
    \/ RateLimitedGiveUp
    \/ WhileExit

SpecGemini == InitGemini /\ [][NextGemini]_vars

\* the function runs on: generate_content and time.sleep come back
SpecGeminiFair == SpecGemini /\ WF_vars(NextGemini)

(***************************************************************************)
(* get_content_from_link (lines 219-222) with its two extractors,          *)
(* _get_content_from_link_trafilatura (lines 190-217) and                  *)
(* _get_content_from_link_tabily (lines 177-188).  Both extractors catch   *)
(* every Exception and return None for it.                                 *)
(***************************************************************************)
Urls == {"https://a.example/1", "https://b.example/2", "https://c.example/3"}

BadStatusCodes == {404, 500}

ContentLens ==
    {1, MinContentLength - 1, MinContentLength, MinContentLength + 1}

\* the texts trafilatura.extract finds
ExtractedTexts == {[i \in 1..n |-> "a"] : n \in ContentLens}

\* the raw_content of the first result of tavily_client.extract
RawContents == {[i \in 1..n |-> "b"] : n \in ContentLens \cup {0}}

InitFetch ==
    /\ pc = "fetch_primary"
    /\ url \in Urls
    /\ http_status = 0
    /\ primary = NoneValue
    /\ fallback_calls = 0
    /\ fallback = NoneValue
    /\ fetched = Fetching
    /\ BotIdle
    /\ SplitIdle
    /\ SendIdle
    /\ GeminiIdle

\* line 220: content = what the primary extractor returned
PrimaryEnds(status, content) ==
    /\ http_status' = status
    /\ primary' = content
    /\ pc' = "fetch_check"
    /\ UNCHANGED <<url, fallback_calls, fallback, fetched>>
    /\ UNCHANGED <<botVars, splitVars, sendVars, geminiVars>>

\* lines 192-196, 215-217: requests.get raises, the extractor returns None
PrimaryRequestRaises ==
    /\ pc = "fetch_primary"
    /\ PrimaryEnds(0, NoneValue)

\* lines 197-199: the status is not 200, the extractor returns None
PrimaryBadStatus ==
    /\ pc = "fetch_primary"
    /\ \E code \in BadStatusCodes : PrimaryEnds(code, NoneValue)

\* lines 204-213, 215-217: trafilatura.extract finds nothing or raises
PrimaryNoText ==
    /\ pc = "fetch_primary"
    /\ PrimaryEnds(200, NoneValue)

\* line 214: the extractor returns the text trafilatura.extract found
PrimaryText ==
    /\ pc = "fetch_primary"
    /\ \E t \in ExtractedTexts : PrimaryEnds(200, Text(t))

\* line 221: if not content or len(content) < 100
NeedsFallback(content) ==
    ~Truthy(content) \/ Len(content.text) < MinContentLength

\* line 222: the call of _get_content_from_link_tabily(url)
CallFallback ==
    /\ pc = "fetch_check"
    /\ NeedsFallback(primary)
    /\ fallback_calls' = fallback_calls + 1
    /\ pc' = "fetch_fallback"
    /\ UNCHANGED <<url, http_status, primary, fallback, fetched>>
    /\ UNCHANGED <<botVars, splitVars, sendVars, geminiVars>>

\* line 222: return what the fallback extractor returned
FallbackEnds(content) ==
    /\ fallback' = content
    /\ fetched' = [kind |-> "return", value |-> content]
    /\ pc' = "fetch_done"
    /\ UNCHANGED <<url, http_status, primary, fallback_calls>>
    /\ UNCHANGED <<botVars, splitVars, sendVars, geminiVars>>

\* lines 183-184, 186-188: no results, or an exception: None
FallbackFails ==
    /\ pc = "fetch_fallback"
    /\ FallbackEnds(NoneValue)

\* line 185: the raw_content of the first result
FallbackContent ==
    /\ pc = "fetch_fallback"
    /\ \E t \in RawContents : FallbackEnds(Text(t))

\* lines 221-222: the condition is false and the function ends without a
\* return statement: the call returns None
PrimarySuffices ==
    /\ pc = "fetch_check"
    /\ ~NeedsFallback(primary)
    /\ fetched' = [kind |-> "return", value |-> NoneValue]
    /\ pc' = "fetch_done"
    /\ UNCHANGED <<url, http_status, primary, fallback_calls, fallback>>
    /\ UNCHANGED <<botVars, splitVars, sendVars, geminiVars>>

NextFetch ==
    \/ PrimaryRequestRaises
    \/ PrimaryBadStatus
    \/ PrimaryNoText
    \/ PrimaryText
    \/ CallFallback
    \/ FallbackFails
    \/ FallbackContent
    \/ PrimarySuffices

SpecFetch == InitFetch /\ [][NextFetch]_vars

(***************************************************************************)
(* The scripts' entry points.  top_it_news_aggregator.main runs techmeme,  *)
(* hacker_news and geeknews in turn; tech_blog_summarize.main runs one try *)
(* statement per feed of rss_feed_dict; get_weather.main is one try        *)
(* statement.  The body of a try statement fetches, summarizes (not in     *)
(* geeknews), formats and delivers; a stage completes or raises.  The      *)
(* except clause calls send_to_telegram with a failure notice.             *)
(***************************************************************************)
\* top_it_news_aggregator.py lines 79-83
AggregatorMain == <<"techmeme", "hacker_news", "geeknews">>

\* tech_blog_summarize.py lines 12-20
RssFeeds ==
    <<"OpenAI News", "Google Developers Blog", "Google DeepMind Blog",
      "Google Research Blog", "Meta Engineering Blog",
      "Slack Engineering Blog", "Netflix Tech Blog">>

\* tech_blog_summarize.py line 21: the feeds the loop goes through
BlogMain == SubSeq(RssFeeds, 1, IF MaxBlogs < Len(RssFeeds) THEN MaxBlogs ELSE Len(RssFeeds))

\* get_weather.py lines 324-346
WeatherMain == <<"get_weather">>

Programs == {AggregatorMain, BlogMain, WeatherMain}

\* the stages of the body of the try statement of an entry point
Stages(ep) ==
    IF ep = "geeknews" THEN <<"fetch", "format", "deliver">>
    ELSE <<"fetch", "summarize", "format", "deliver">>

\* the exceptions a stage can raise, by class
StageRaises(ep, st) ==
    CASE st = "fetch" ->
            IF ep = "hacker_news" THEN {"RequestException"}
            ELSE IF ep = "get_weather" THEN {"RequestException", "KeyError"}
            ELSE {"AttributeError"}
      [] st = "summarize" -> {"ResourceExhausted", "JSONDecodeError", "RuntimeError"}
      [] st = "format" -> {"KeyError"}
      [] st = "deliver" -> {"RequestException"}

\* the class the except clause of an entry point names
Handler(ep) == IF ep = "hacker_news" THEN "RequestException" ELSE "Exception"

\* isinstance(exc, cls): every class here derives from Exception only
IsInstance(exc, cls) == cls = "Exception" \/ exc = cls

Catches(ep, exc) == IsInstance(exc, Handler(ep))

InitBots ==
    /\ pc = "bot_body"
    /\ program \in Programs
    /\ ep_idx = 1
    /\ stage = 1
    /\ failures = <<>>
    /\ notices = <<>>
    /\ propagated = NoException
    /\ FetchIdle
    /\ SplitIdle
    /\ SendIdle
    /\ GeminiIdle

InBody == pc = "bot_body" /\ ep_idx <= Len(program)

EntryPoint == program[ep_idx]

\* a stage of the body completes, the next one runs
StageCompletes ==
    /\ InBody
    /\ stage < Len(Stages(EntryPoint))
    /\ stage' = stage + 1
    /\ UNCHANGED <<pc, program, ep_idx, failures, notices, propagated>>
    /\ UNCHANGED <<fetchVars, splitVars, sendVars, geminiVars>>

\* the last stage completes, the entry point returns
BodyCompletes ==
    /\ InBody
    /\ stage = Len(Stages(EntryPoint))
    /\ ep_idx' = ep_idx + 1
    /\ stage' = 1
    /\ UNCHANGED <<pc, program, failures, notices, propagated>>
    /\ UNCHANGED <<fetchVars, splitVars, sendVars, geminiVars>>

\* a stage raises what the except clause names: the clause calls
\* send_to_telegram with the notice
StageRaisesCaught ==
    /\ InBody
    /\ \E exc \in StageRaises(EntryPoint, Stages(EntryPoint)[stage]) :
           /\ Catches(EntryPoint, exc)
           /\ failures' = Append(failures, [ep |-> EntryPoint, exc |-> exc,
                                             st |-> Stages(EntryPoint)[stage]])
           /\ notices' = Append(notices, [ep |-> EntryPoint, exc |-> exc])
    /\ pc' = "bot_notice"
    /\ UNCHANGED <<program, ep_idx, stage, propagated>>
    /\ UNCHANGED <<fetchVars, splitVars, sendVars, geminiVars>>

\* a stage raises what the except clause does not name: the exception leaves
\* the entry point and main, which has no try statement around the call
StageRaisesUncaught ==
    /\ InBody
    /\ \E exc \in StageRaises(EntryPoint, Stages(EntryPoint)[stage]) :
           /\ ~Catches(EntryPoint, exc)
           /\ failures' = Append(failures, [ep |-> EntryPoint, exc |-> exc,
                                             st |-> Stages(EntryPoint)[stage]])
           /\ propagated' = [ep |-> EntryPoint, exc |-> exc, from |-> "body"]
    /\ pc' = "bot_propagated"
    /\ UNCHANGED <<program, ep_idx, stage, notices>>
    /\ UNCHANGED <<fetchVars, splitVars, sendVars, geminiVars>>

\* send_to_telegram returns in the except clause, the entry point returns
NoticeReturns ==
    /\ pc = "bot_notice"
    /\ ep_idx' = ep_idx + 1
    /\ stage' = 1
    /\ pc' = "bot_body"
    /\ UNCHANGED <<program, failures, notices, propagated>>
    /\ UNCHANGED <<fetchVars, splitVars, sendVars, geminiVars>>

\* send_to_telegram raises in the except clause: nothing catches it
NoticeRaises ==
    /\ pc = "bot_notice"
    /\ propagated' = [ep |-> EntryPoint, exc |-> "RequestException", from |-> "notice"]
    /\ pc' = "bot_propagated"
    /\ UNCHANGED <<program, ep_idx, stage, failures, notices>>
    /\ UNCHANGED <<fetchVars, splitVars, sendVars, geminiVars>>

\* every entry point has returned, main returns
MainReturns ==
    /\ pc = "bot_body"
    /\ ep_idx > Len(program)
    /\ pc' = "bot_done"
    /\ UNCHANGED <<botVars, fetchVars, splitVars, sendVars, geminiVars>>

NextBots ==
    \/ StageCompletes
    \/ BodyCompletes
    \/ StageRaisesCaught
    \/ StageRaisesUncaught
    \/ NoticeReturns
    \/ NoticeRaises
    \/ MainReturns

SpecBots == InitBots /\ [][NextBots]_vars

(***************************************************************************)
(* Vocabulary of the chunker's properties.                                 *)
(***************************************************************************)
\* the offset in the joined chunks at which chunk k ends
ChunkEnd(cs, k) == Len(Concat(SubSeq(cs, 1, k)))

ChunkEnds(cs) == {ChunkEnd(cs, k) : k \in 1..Len(cs)}

\* the number of lines a text consists of
LineCount(s) == Cardinality(LineEnds(s))

\* the offset in the text at which its line i ends
LineEndOffset(ls, i) == Len(Concat(SubSeq(ls, 1, i)))

PositiveLimit == max_length > 0

\* C1: for every text and positive limit, the chunks returned, joined in the
\* order returned, are exactly the text.
RoundTrip ==
    (Returned /\ PositiveLimit) => Concat(chunks) = long_string

RoundTripWitness ==
    /\ Returned /\ PositiveLimit
    /\ Len(chunks) >= 3
    /\ \E k \in 1..Len(chunks) : LineCount(chunks[k]) >= 2
    /\ Concat(chunks) = long_string

\* C2: for every text and positive limit, every chunk is shorter than the
\* limit or is exactly one line whose length is at least the limit; a chunk
\* of two or more lines is always shorter than the limit.
SizeBound ==
    PositiveLimit =>
        \A k \in 1..Len(chunks) :
            /\ \/ Len(chunks[k]) < max_length
               \/ LineCount(chunks[k]) = 1 /\ Len(chunks[k]) >= max_length
            /\ LineCount(chunks[k]) >= 2 => Len(chunks[k]) < max_length

SizeBoundWitness ==
    /\ Returned /\ PositiveLimit
    /\ \E k \in 1..Len(chunks) :
           LineCount(chunks[k]) = 1 /\ Len(chunks[k]) >= max_length
    /\ \E k \in 1..Len(chunks) :
           LineCount(chunks[k]) >= 2 /\ Len(chunks[k]) = max_length - 1

\* C3: for every text and positive limit, every chunk is one or more whole
\* consecutive lines of the text: the chunks join to the text, none is
\* empty, and every chunk ends where a line of the text ends.
LinesNeverSplit ==
    (Returned /\ PositiveLimit) =>
        /\ Concat(chunks) = long_string
        /\ \A k \in 1..Len(chunks) : Len(chunks[k]) > 0
        /\ ChunkEnds(chunks) \subseteq LineEnds(long_string)

LinesNeverSplitWitness ==
    /\ Returned /\ PositiveLimit
    /\ Len(chunks) >= 2
    /\ \E i \in 1..(Len(long_string) - 1) :
           long_string[i] = "\r" /\ long_string[i + 1] = "\n"
    /\ \E k \in 1..Len(chunks) : Len(chunks[k]) > max_length
    /\ ChunkEnds(chunks) \subseteq LineEnds(long_string)

\* C4: for every text and positive limit, no chunk is the empty text, and
\* the result is the empty list exactly when the text is empty.
NoEmptyChunks ==
    PositiveLimit =>
        /\ \A k \in 1..Len(chunks) : chunks[k] # <<>>
        /\ Returned => (chunks = <<>> <=> long_string = <<>>)

NoEmptyChunksWitness ==
    /\ Returned /\ PositiveLimit
    /\ long_string = <<>>
    /\ chunks = <<>>

\* C5: a line at least as long as the limit (a line of exactly the limit
\* included) becomes a chunk that is that line alone: the step that meets it
\* first flushes a non-empty accumulator as a chunk of its own, appends the
\* line as the next chunk and leaves the accumulator empty; in the result the
\* line is a chunk whatever the lengths of its neighbours.
OversizedStep ==
    (InLoop /\ PositiveLimit /\ Len(lines[line_idx]) >= max_length) =>
        /\ chunks' = (IF current_chunk # <<>>
                      THEN Append(chunks, current_chunk)
                      ELSE chunks) \o <<lines[line_idx]>>
        /\ current_chunk' = <<>>

OversizedAlone ==
    (Returned /\ PositiveLimit) =>
        \A i \in 1..Len(lines) :
            Len(lines[i]) >= max_length =>
                \E k \in 1..Len(chunks) :
                    /\ chunks[k] = lines[i]
                    /\ ChunkEnd(chunks, k) = LineEndOffset(lines, i)

OversizedIsolation == []OversizedAlone /\ [][OversizedStep]_vars

OversizedIsolationWitness ==
    /\ Returned /\ PositiveLimit
    /\ max_length >= 2
    /\ \E i \in 2..(Len(lines) - 1) :
           /\ Len(lines[i]) = max_length
           /\ Len(lines[i - 1]) < max_length
           /\ Len(lines[i + 1]) < max_length
           /\ \E k \in 2..(Len(chunks) - 1) : 
                  /\ chunks[k] = lines[i]
                  /\ ChunkEnd(chunks, k) = LineEndOffset(lines, i)

\* C6: when the accumulator and the next line, each shorter than the limit,
\* together are exactly as long as the limit, the accumulator is flushed and
\* the line starts the next chunk; two consecutive lines of combined length
\* exactly the limit end in different chunks, and no accumulated chunk is
\* exactly as long as the limit.
ExactBoundaryStep ==
    (/\ InLoop /\ PositiveLimit
     /\ Len(lines[line_idx]) < max_length
     /\ Len(current_chunk) < max_length
     /\ Len(current_chunk) + Len(lines[line_idx]) = max_length) =>
        /\ chunks' = Append(chunks, current_chunk)
        /\ current_chunk' = lines[line_idx]

ExactBoundaryResult ==
    PositiveLimit =>
        /\ Len(current_chunk) # max_length
        /\ \A k \in 1..Len(chunks) :
               Len(chunks[k]) = max_length => LineCount(chunks[k]) = 1
        /\ Returned =>
               \A i \in 1..(Len(lines) - 1) :
                   Len(lines[i]) + Len(lines[i + 1]) = max_length =>
                       LineEndOffset(lines, i) \in ChunkEnds(chunks)

ExactBoundarySplit == []ExactBoundaryResult /\ [][ExactBoundaryStep]_vars

ExactBoundarySplitWitness ==
    /\ Returned /\ PositiveLimit
    /\ Len(lines) = 2
    /\ Len(lines[1]) + Len(lines[2]) = max_length
    /\ chunks = <<lines[1], lines[2]>>

\* C7: for every text and positive limit, no partition of the text's lines
\* into contiguous non-empty groups, each shorter than the limit or a single
\* line at least as long as the limit, has fewer groups than the result has
\* chunks.
\* A partition of n lines is the set of the line numbers after which it cuts.
Partitions(n) == SUBSET (1..(n - 1))

GroupStarts(cuts) == {c + 1 : c \in cuts \cup {0}}

GroupEnd(cuts, n, first) ==
    CHOOSE e \in cuts \cup {n} :
        /\ e >= first
        /\ \A f \in cuts \cup {n} : f >= first => e <= f

GroupLen(ls, first, last) ==
    LineEndOffset(ls, last) - LineEndOffset(ls, first - 1)

ValidPartition(ls, cuts, limit) ==
    \A first \in GroupStarts(cuts) :
        LET last == GroupEnd(cuts, Len(ls), first)
        IN  \/ GroupLen(ls, first, last) < limit
            \/ first = last /\ Len(ls[first]) >= limit

GroupCount(n, cuts) == IF n = 0 THEN 0 ELSE Cardinality(cuts) + 1

MinimalChunkCount ==
    (Returned /\ PositiveLimit) =>
        LET ls == splitlines(long_string)
        IN  \A cuts \in Partitions(Len(ls)) :
                (Len(ls) > 0 /\ ValidPartition(ls, cuts, max_length)) =>
                    Len(chunks) <= GroupCount(Len(ls), cuts)

MinimalChunkCountWitness ==
    /\ Returned /\ PositiveLimit
    /\ Len(lines) >= 4
    /\ Len(chunks) = 2
    /\ \A k \in 1..Len(chunks) : LineCount(chunks[k]) >= 2
    /\ \E cuts \in Partitions(Len(lines)) :
           /\ ValidPartition(lines, cuts, max_length)
           /\ GroupCount(Len(lines), cuts) > Len(chunks)

\* C8 as claimed: a limit that is not positive makes the chunker fail with a
\* PreconditionError before it works on the text and without returning
\* chunks; a positive limit never makes it fail.
PreconditionOnLimit ==
    /\ max_length <= 0 => pc \notin {"loop", "done"}
    /\ max_length > 0 => pc # "PreconditionError"

\* C8 as amended: no limit makes the chunker fail; it runs to its return for
\* every limit, and for a limit that is not positive it returns every line of
\* the text as a chunk of its own.
NonPositiveLimitReturnsLines ==
    /\ pc \in {"split", "loop", "done"}
    /\ ~Returned => ENABLED Next
    /\ (Returned /\ max_length <= 0) => chunks = splitlines(long_string)

NonPositiveLimitReturnsLinesWitness ==
    /\ Returned
    /\ max_length <= 0
    /\ Len(chunks) >= 3
    /\ chunks = splitlines(long_string)

\* C9: send_long_message_to_telegram computes the chunks of the message
\* once, hands them to send_to_telegram one call per chunk in chunk order,
\* starts a call only when every earlier call has returned, has handed over
\* exactly the chunks when it returns, and makes no call for the empty
\* message.
ChunksComputedOnce ==
    pc # "send_split" =>
        /\ splitted_msg' = splitted_msg
        /\ splitted_msg = split_string_by_lines(message, DefaultMaxLength)

DeliveredInOrder ==
    /\ Len(sink_calls) <= Len(splitted_msg)
    /\ sink_calls = SubSeq(splitted_msg, 1, Len(sink_calls))
    /\ pc = "in_sink" => Len(sink_calls) = sink_returns + 1
    /\ pc # "in_sink" => Len(sink_calls) \in {sink_returns, sink_returns + 1}
    /\ pc = "send_loop" => Len(sink_calls) = sink_returns
    /\ pc = "send_returned" =>
           /\ sink_calls = split_string_by_lines(message, DefaultMaxLength)
           /\ sink_returns = Len(sink_calls)
    /\ message = <<>> => sink_calls = <<>>

SequentialDelivery == []DeliveredInOrder /\ [][ChunksComputedOnce]_vars

SequentialDeliveryWitness ==
    /\ pc = "send_returned"
    /\ Len(sink_calls) = 3
    /\ sink_calls[1] # sink_calls[2]
    /\ sink_calls[2] # sink_calls[3]
    /\ sink_calls = splitted_msg

\* C10: when the last allowed attempt of process_text_with_gemini is rate
\* limited too, the call returns None and raises nothing; when an attempt
\* succeeds, the call returns the parsed dictionary.
LastCall == model_calls[Len(model_calls)]

GeminiDone == pc = "gemini_done"

ReturnsNoneAfterRetries ==
    (GeminiDone /\ Len(model_calls) > 0) =>
        /\ LastCall = "ResourceExhausted" => result = Returns("None")
        /\ LastCall = GoodResponse => result = Returns(json_loads(GoodResponse).value)

(***************************************************************************)
(* Vocabulary of the retry loop's properties.                              *)
(***************************************************************************)
\* the calls of the model before the last one were all rate limited
EarlierAllRateLimited ==
    \A i \in 1..(Len(model_calls) - 1) : model_calls[i] = "ResourceExhausted"

AllRateLimited ==
    \A i \in 1..Len(model_calls) : model_calls[i] = "ResourceExhausted"

\* the call has returned the parsed text of its first attempt that succeeded
ReturnedFirstSuccess ==
    /\ Len(model_calls) > 0
    /\ EarlierAllRateLimited
    /\ LastCall \in ResponseTexts
    /\ ~json_loads(LastCall).raises
    /\ result = Returns(json_loads(LastCall).value)

\* the call has raised ResourceExhausted at attempt max_retries + 1
RaisedRateLimit ==
    /\ Len(model_calls) = max_retries + 1
    /\ AllRateLimited
    /\ result = Raises("ResourceExhausted")

\* the call has raised what its last attempt failed with, no rate limit
RaisedOtherFailure ==
    /\ Len(model_calls) > 0
    /\ EarlierAllRateLimited
    /\ \/ /\ LastCall \in ResponseTexts
          /\ json_loads(LastCall).raises
          /\ result = Raises(json_loads(LastCall).value)
       \/ LastCall = "Exception" /\ result = Raises("Exception")

\* the counts of calls and sleeps of a call with max_retries >= 0
RetryCounts ==
    /\ Len(model_calls) <= max_retries + 1
    /\ Len(slept) <= max_retries
    /\ \A i \in 1..Len(slept) : slept[i] = delay_seconds
    /\ ~GeminiDone => (AllRateLimited /\ Len(slept) = Len(model_calls))
    /\ GeminiDone => Len(slept) = Len(model_calls) - 1
    /\ result # Raises("RuntimeError")

\* C12 as claimed: with max_retries >= 0 the call makes at most
\* max_retries + 1 calls of the model, sleeps delay_seconds once after each
\* rate-limited attempt that another attempt follows (at most max_retries
\* times), never raises the RuntimeError of line 91, and ends in one of two
\* ways: returning the parsed result of the first attempt that succeeded, or
\* raising ResourceExhausted at attempt max_retries + 1.
BoundedRetryTwoEndings ==
    max_retries >= 0 =>
        /\ RetryCounts
        /\ GeminiDone => (ReturnedFirstSuccess \/ RaisedRateLimit)

\* C12 as amended: the same counts, and the call always ends, in one of three
\* ways: returning the parsed result of the first attempt that succeeded,
\* raising ResourceExhausted at attempt max_retries + 1, or raising at once
\* the JSON decode error or other exception an attempt failed with.
BoundedRetryEndings ==
    max_retries >= 0 =>
        /\ RetryCounts
        /\ GeminiDone =>
               (ReturnedFirstSuccess \/ RaisedRateLimit \/ RaisedOtherFailure)

BoundedRetry == []BoundedRetryEndings /\ <>GeminiDone

BoundedRetryWitness ==
    /\ GeminiDone
    /\ max_retries = DefaultMaxRetries
    /\ Len(model_calls) = DefaultMaxRetries + 1
    /\ Len(slept) = DefaultMaxRetries
    /\ RaisedRateLimit

\* C13: an attempt that fails with a JSON decode error or with an exception
\* other than ResourceExhausted ends the call at once: its error is raised,
\* it is the last call of the model, and no sleep follows it, however many
\* tries are left.
FailedOtherwise(i) ==
    \/ model_calls[i] = "Exception"
    \/ model_calls[i] \in ResponseTexts /\ json_loads(model_calls[i]).raises

RaisedBy(i) ==
    IF model_calls[i] = "Exception" THEN Raises("Exception")
    ELSE Raises(json_loads(model_calls[i]).value)

OnlyRateLimitRetried ==
    \A i \in 1..Len(model_calls) :
        FailedOtherwise(i) =>
            /\ i = Len(model_calls)
            /\ GeminiDone
            /\ result = RaisedBy(i)
            /\ Len(slept) = i - 1
            /\ current_try = i - 1

OnlyRateLimitRetriedWitness ==
    /\ GeminiDone
    /\ Len(model_calls) = 2
    /\ FailedOtherwise(2)
    /\ model_calls[2] = TruncatedResponse
    /\ result = Raises("JSONDecodeError")
    /\ current_try + 2 <= max_retries
    /\ Len(slept) = 1

\* C14: of two consecutive chunks of the result, neither of them a single
\* line at least as long as the limit, the first one and the first line of
\* the second one together are at least as long as the limit: a chunk of
\* accumulated lines ends only where the next line does not fit, where the
\* next line is oversized, or where the text ends.
OversizedChunk(c) == LineCount(c) = 1 /\ Len(c) >= max_length

FirstLine(c) == splitlines(c)[1]

GreedyMaximal ==
    Returned =>
        \A k \in 1..(Len(chunks) - 1) :
            (~OversizedChunk(chunks[k]) /\ ~OversizedChunk(chunks[k + 1])) =>
                Len(chunks[k]) + Len(FirstLine(chunks[k + 1])) >= max_length

GreedyMaximalWitness ==
    /\ Returned
    /\ \E k \in 1..(Len(chunks) - 1) :
           /\ ~OversizedChunk(chunks[k])
           /\ ~OversizedChunk(chunks[k + 1])
           /\ LineCount(chunks[k]) >= 2
           /\ LineCount(chunks[k + 1]) >= 2
           /\ Len(chunks[k]) + Len(FirstLine(chunks[k + 1])) >= max_length

\* C15: get_content_from_link never raises; when the primary extractor
\* yields a text of at least 100 characters the call returns that text and
\* the fallback extractor is not called; when the primary extractor yields
\* nothing or fewer than 100 characters the fallback extractor is called
\* exactly once and the call returns what it returned.
FetchDone == pc = "fetch_done"

PrimaryIsEnough == ~primary.none /\ Len(primary.text) >= MinContentLength

ContentFetchFallback ==
    /\ fetched.kind # "raise"
    /\ FetchDone =>
           /\ fetched.kind = "return"
           /\ PrimaryIsEnough =>
                  (fetched.value = primary /\ fallback_calls = 0)
           /\ ~PrimaryIsEnough =>
                  (fetched.value = fallback /\ fallback_calls = 1)

\* C11: in every entry point, whatever a stage of the try body raises is
\* caught and answered by a call of send_to_telegram with a failure notice;
\* it does not leave the entry point, so in top_it_news_aggregator.main the
\* sources after a failing one still run.
FailuresReported ==
    /\ propagated.from # "body"
    /\ \A i \in 1..Len(failures) :
           /\ i <= Len(notices)
           /\ notices[i].ep = failures[i].ep
           /\ notices[i].exc = failures[i].exc

====
